---- MODULE Spec2Model ----
(***************************************************************************)
(* State-machine model of contracts/DAO_Debate_Guard.sol                   *)
(* (contract DaoDebateGuardFHE): access control, per-address cooldowns,    *)
(* the single-slot batch ledger with its four encrypted accumulators, and  *)
(* the asynchronous decryption request / callback protocol.                *)
(*                                                                         *)
(* Every external function is one action.  A call either succeeds and      *)
(* applies all of its assignments, or reverts, and then the contract       *)
(* state is unchanged (EVM transaction atomicity): a reverted call is a    *)
(* stuttering step.  For every function f, the operator fRevert gives the  *)
(* error a call reverts with in the current state ("ok" when it succeeds). *)
(*                                                                         *)
(* Ciphertext handles are modelled symbolically: FHE.asEuint32(0) is the   *)
(* empty sum, fheAdd(a, c) appends the input handle c to the sum a.  The   *)
(* FHE library derives a result handle deterministically from the          *)
(* operation and its operand handles, so equal expressions are equal       *)
(* handles and different expressions are different handles.                *)
(***************************************************************************)
EXTENDS Integers, Sequences, FiniteSets, TLC

(* ------------------------------ bounds -------------------------------- *)
MaxTime == 120          \* the clock stops advancing at this timestamp
MaxBatches == 2         \* openBatch is not called beyond this batch id
MaxSubmissions == 2     \* successful submissions per batch
MaxRequests == 2        \* decryption requests the oracle issues ids for

(* --------------------------- program constants ------------------------ *)
DefaultCooldown == 60   \* constructor: cooldownSeconds = 60
UINT_MAX == 255         \* largest uint value; uint256 scaled down to 8 bits

(* ------------------------------ inputs -------------------------------- *)
Addresses == {"deployer", "alice"}
ThisAddress == "guard"                       \* address(this)
Deltas == {DefaultCooldown}                  \* clock increments
CooldownInputs == {0, DefaultCooldown, UINT_MAX}
\* the input ciphertext handles (sentiment, keyword, pollOption1,
\* pollOption2) a sender holds: every encryption has handles of its own
InputHandles(sender) ==
    IF sender = "alice" THEN {<<11, 12, 13, 14>>} ELSE {<<21, 22, 23, 24>>}
\* decrypted words delivered by a callback, 32 bytes each
Cleartexts == {<<2, 6, 2, 0>>, <<2, 6, 1, 1>>}
Proofs == {"valid", "forged"}
\* the callbacks that arrive: the oracle's answer, and a forgery
Deliveries == {<<<<2, 6, 2, 0>>, "valid">>, <<<<2, 6, 1, 1>>, "forged">>}
RequestIds == 1..(MaxRequests + 1)

VARIABLES
    owner, providers, paused, cooldownSeconds,
    lastSubmissionTime, lastDecryptionRequestTime,
    currentBatchId, batchOpen, decryptionContexts,
    accSentimentScore, accKeywordCount,
    accPollOption1Count, accPollOption2Count,
    submissionsInCurrentBatch,
    fheInitialized,     \* FHE.isInitialized()
    now,                \* block.timestamp
    nextRequestId,      \* the oracle's request counter
    requestedCts,       \* history: the handles each request asked to decrypt
    completions,        \* history: the successful callbacks of each requestId
    batchSubmissions    \* history: the successful submissions to the current batch

storage == <<owner, providers, paused, cooldownSeconds,
             lastSubmissionTime, lastDecryptionRequestTime,
             currentBatchId, batchOpen, decryptionContexts,
             accSentimentScore, accKeywordCount,
             accPollOption1Count, accPollOption2Count,
             submissionsInCurrentBatch, fheInitialized>>

vars == <<owner, providers, paused, cooldownSeconds,
          lastSubmissionTime, lastDecryptionRequestTime,
          currentBatchId, batchOpen, decryptionContexts,
          accSentimentScore, accKeywordCount,
          accPollOption1Count, accPollOption2Count,
          submissionsInCurrentBatch, fheInitialized,
          now, nextRequestId, requestedCts, completions, batchSubmissions>>

(* ------------------------- library primitives ------------------------- *)
\* FHE.asEuint32(0): the handle of the trivial encryption of zero
FHE_asEuint32_0 == <<>>

\* a.fheAdd(b): the handle of the homomorphic sum
fheAdd(a, b) == Append(a, b)

\* FHE.toBytes32: the raw handle
FHE_toBytes32(h) == h

\* keccak256(abi.encode(cts, address(this))): collision resistant, so the
\* digest is modelled by the encoded pair itself; it is never bytes32(0)
keccak256(cts, self) == <<"keccak256", cts, self>>

\* the zero value of bytes32, the default stateHash of an unset context
ZeroHash == <<>>

\* FHE.checkSignatures(requestId, cleartexts, proof)
FHE_checkSignatures(requestId, cleartexts, proof) == proof = "valid"

\* abi.decode(cleartexts[32*(i-1) : 32*i], (uint256))
\* mutant: the four words are decoded in reverse order
abiDecodeWord_Reversed(cleartexts, i) == cleartexts[5 - i]

abiDecodeWord(cleartexts, i) == cleartexts[i]

\* the default (all zero) value of the struct DecryptionContext
DefaultContext == [batchId |-> 0, stateHash |-> ZeroHash, processed |-> FALSE]

\* sequencing of checks: the error of the first one that fails
Then(first, rest) == IF first # "ok" THEN first ELSE rest

(* ------------------------------ modifiers ----------------------------- *)
\* mutant: a provider passes the owner gate
onlyOwner_OrProvider(sender) ==
    IF sender # owner /\ sender \notin providers THEN "NotOwner" ELSE "ok"

onlyOwner(sender) == IF sender # owner THEN "NotOwner" ELSE "ok"

onlyProvider(sender) == IF sender \notin providers THEN "NotProvider" ELSE "ok"

whenNotPaused == IF paused THEN "Paused" ELSE "ok"

_requireInitialized == IF ~fheInitialized THEN "NotInitialized" ELSE "ok"

\* block.timestamp < last + cooldownSeconds, in checked uint arithmetic
cooldownCheck(last) ==
    IF last + cooldownSeconds > UINT_MAX THEN "Panic"
    ELSE IF now < last + cooldownSeconds THEN "CooldownActive"
    ELSE "ok"

(* ------------------------------ constructor --------------------------- *)
Init ==
    /\ owner = "deployer"
    /\ providers = {"deployer"}
    /\ paused = FALSE
    /\ cooldownSeconds = DefaultCooldown
    /\ lastSubmissionTime = [a \in Addresses |-> 0]
    /\ lastDecryptionRequestTime = [a \in Addresses |-> 0]
    /\ currentBatchId = 0
    /\ batchOpen = FALSE
    /\ decryptionContexts = [r \in RequestIds |-> DefaultContext]
    /\ accSentimentScore = FHE_asEuint32_0
    /\ accKeywordCount = FHE_asEuint32_0
    /\ accPollOption1Count = FHE_asEuint32_0
    /\ accPollOption2Count = FHE_asEuint32_0
    /\ submissionsInCurrentBatch = 0
    /\ fheInitialized = TRUE
    /\ now = DefaultCooldown
    /\ nextRequestId = 1
    /\ requestedCts = [r \in RequestIds |-> <<>>]
    /\ completions = [r \in RequestIds |-> <<>>]
    /\ batchSubmissions = <<>>

\* mutant: the timestamp written by a call survives its revert
Reverted_KeepsTimestamp ==
    /\ \E a \in Addresses :
           lastSubmissionTime' = [lastSubmissionTime EXCEPT ![a] = now]
    /\ UNCHANGED <<owner, providers, paused, cooldownSeconds,
                   lastDecryptionRequestTime,
                   currentBatchId, batchOpen, decryptionContexts,
                   accSentimentScore, accKeywordCount,
                   accPollOption1Count, accPollOption2Count,
                   submissionsInCurrentBatch, fheInitialized,
                   now, nextRequestId, requestedCts, completions,
                   batchSubmissions>>

\* mutant: a reverted call leaves a zero decryption-request timestamp
Reverted_ClearsRequestTime ==
    /\ \E a \in Addresses :
           lastDecryptionRequestTime' =
               [lastDecryptionRequestTime EXCEPT ![a] = 0]
    /\ UNCHANGED <<owner, providers, paused, cooldownSeconds,
                   lastSubmissionTime,
                   currentBatchId, batchOpen, decryptionContexts,
                   accSentimentScore, accKeywordCount,
                   accPollOption1Count, accPollOption2Count,
                   submissionsInCurrentBatch, fheInitialized,
                   now, nextRequestId, requestedCts, completions,
                   batchSubmissions>>

\* a reverted call changes nothing
Reverted == UNCHANGED vars

(* --------------------------- administration --------------------------- *)
transferOwnershipRevert(sender) == onlyOwner(sender)

\* mutant: the new owner is made a provider as well
transferOwnership_GrantsProvider(sender, newOwner) ==
    LET err == transferOwnershipRevert(sender) IN
    /\ IF err # "ok" THEN Reverted
       ELSE /\ owner' = newOwner
            /\ providers' = providers \cup {newOwner}
            /\ UNCHANGED <<paused, cooldownSeconds,
                           lastSubmissionTime, lastDecryptionRequestTime,
                           currentBatchId, batchOpen, decryptionContexts,
                           accSentimentScore, accKeywordCount,
                           accPollOption1Count, accPollOption2Count,
                           submissionsInCurrentBatch, fheInitialized,
                           now, nextRequestId, requestedCts, completions,
                           batchSubmissions>>

transferOwnership(sender, newOwner) ==
    LET err == transferOwnershipRevert(sender) IN
    /\ IF err # "ok" THEN Reverted
       ELSE /\ owner' = newOwner
            /\ UNCHANGED <<providers, paused, cooldownSeconds,
                           lastSubmissionTime, lastDecryptionRequestTime,
                           currentBatchId, batchOpen, decryptionContexts,
                           accSentimentScore, accKeywordCount,
                           accPollOption1Count, accPollOption2Count,
                           submissionsInCurrentBatch, fheInitialized,
                           now, nextRequestId, requestedCts, completions, batchSubmissions>>

\* mutant: the write flips the flag of the provider
providersSet_Toggle(ps, provider, flag) ==
    IF provider \in ps THEN ps \ {provider} ELSE ps \cup {provider}

\* providers[provider] = flag, on the set ps of addresses mapped to true
providersSet(ps, provider, flag) ==
    IF flag THEN ps \cup {provider} ELSE ps \ {provider}

addProviderRevert(sender) == onlyOwner(sender)

addProvider(sender, provider) ==
    LET err == addProviderRevert(sender) IN
    /\ IF err # "ok" THEN Reverted
       ELSE /\ providers' = providersSet(providers, provider, TRUE)
            /\ UNCHANGED <<owner, paused, cooldownSeconds,
                           lastSubmissionTime, lastDecryptionRequestTime,
                           currentBatchId, batchOpen, decryptionContexts,
                           accSentimentScore, accKeywordCount,
                           accPollOption1Count, accPollOption2Count,
                           submissionsInCurrentBatch, fheInitialized,
                           now, nextRequestId, requestedCts, completions, batchSubmissions>>

removeProviderRevert(sender) == onlyOwner(sender)

removeProvider(sender, provider) ==
    LET err == removeProviderRevert(sender) IN
    /\ IF err # "ok" THEN Reverted
       ELSE /\ providers' = providersSet(providers, provider, FALSE)
            /\ UNCHANGED <<owner, paused, cooldownSeconds,
                           lastSubmissionTime, lastDecryptionRequestTime,
                           currentBatchId, batchOpen, decryptionContexts,
                           accSentimentScore, accKeywordCount,
                           accPollOption1Count, accPollOption2Count,
                           submissionsInCurrentBatch, fheInitialized,
                           now, nextRequestId, requestedCts, completions, batchSubmissions>>

setPausedRevert(sender) == onlyOwner(sender)

setPaused(sender, _paused) ==
    LET err == setPausedRevert(sender) IN
    /\ IF err # "ok" THEN Reverted
       ELSE /\ paused' = _paused
            /\ UNCHANGED <<owner, providers, cooldownSeconds,
                           lastSubmissionTime, lastDecryptionRequestTime,
                           currentBatchId, batchOpen, decryptionContexts,
                           accSentimentScore, accKeywordCount,
                           accPollOption1Count, accPollOption2Count,
                           submissionsInCurrentBatch, fheInitialized,
                           now, nextRequestId, requestedCts, completions, batchSubmissions>>

\* mutant: setCooldownSeconds without the zero check
setCooldownSecondsRevert_NoZeroCheck(sender, _cooldownSeconds) ==
    onlyOwner(sender)

setCooldownSecondsRevert(sender, _cooldownSeconds) ==
    Then(onlyOwner(sender),
    IF _cooldownSeconds = 0 THEN "InvalidParameter" ELSE "ok")

setCooldownSeconds(sender, _cooldownSeconds) ==
    LET err == setCooldownSecondsRevert(sender, _cooldownSeconds) IN
    /\ IF err # "ok" THEN Reverted
       ELSE /\ cooldownSeconds' = _cooldownSeconds
            /\ UNCHANGED <<owner, providers, paused,
                           lastSubmissionTime, lastDecryptionRequestTime,
                           currentBatchId, batchOpen, decryptionContexts,
                           accSentimentScore, accKeywordCount,
                           accPollOption1Count, accPollOption2Count,
                           submissionsInCurrentBatch, fheInitialized,
                           now, nextRequestId, requestedCts, completions, batchSubmissions>>

(* ------------------------------ batch ledger -------------------------- *)
\* mutant: openBatch without the whenNotPaused modifier
openBatchRevert_NoPause(sender) ==
    Then(onlyOwner(sender),
    IF batchOpen THEN "InvalidBatchId" ELSE "ok")

openBatchRevert(sender) ==
    Then(onlyOwner(sender),
    Then(whenNotPaused,
    IF batchOpen THEN "InvalidBatchId" ELSE "ok"))

\* mutant: openBatch leaves the accumulators of the previous batch in place
openBatch_NoReset(sender) ==
    LET err == openBatchRevert(sender) IN
    /\ IF err # "ok" THEN Reverted
       ELSE /\ currentBatchId < MaxBatches
            /\ currentBatchId' = currentBatchId + 1
            /\ batchOpen' = TRUE
            /\ submissionsInCurrentBatch' = 0
            /\ batchSubmissions' = <<>>
            /\ UNCHANGED <<owner, providers, paused, cooldownSeconds,
                           lastSubmissionTime, lastDecryptionRequestTime,
                           decryptionContexts, fheInitialized,
                           accSentimentScore, accKeywordCount,
                           accPollOption1Count, accPollOption2Count,
                           now, nextRequestId, requestedCts, completions>>

\* mutant: openBatch resets the accumulators but not the count
openBatch_KeepsCount(sender) ==
    LET err == openBatchRevert(sender) IN
    /\ IF err # "ok" THEN Reverted
       ELSE /\ currentBatchId < MaxBatches
            /\ currentBatchId' = currentBatchId + 1
            /\ batchOpen' = TRUE
            /\ accSentimentScore' = FHE_asEuint32_0
            /\ accKeywordCount' = FHE_asEuint32_0
            /\ accPollOption1Count' = FHE_asEuint32_0
            /\ accPollOption2Count' = FHE_asEuint32_0
            /\ batchSubmissions' = <<>>
            /\ UNCHANGED <<owner, providers, paused, cooldownSeconds,
                           lastSubmissionTime, lastDecryptionRequestTime,
                           decryptionContexts, fheInitialized,
                           submissionsInCurrentBatch,
                           now, nextRequestId, requestedCts, completions>>

\* mutant: openBatch opens a batch under the id of the previous one
openBatch_NoIncrement(sender) ==
    LET err == openBatchRevert(sender) IN
    /\ IF err # "ok" THEN Reverted
       ELSE /\ currentBatchId < MaxBatches
            /\ batchOpen' = TRUE
            /\ submissionsInCurrentBatch' = 0
            /\ accSentimentScore' = FHE_asEuint32_0
            /\ accKeywordCount' = FHE_asEuint32_0
            /\ accPollOption1Count' = FHE_asEuint32_0
            /\ accPollOption2Count' = FHE_asEuint32_0
            /\ batchSubmissions' = <<>>
            /\ UNCHANGED <<owner, providers, paused, cooldownSeconds,
                           lastSubmissionTime, lastDecryptionRequestTime,
                           currentBatchId, decryptionContexts, fheInitialized,
                           now, nextRequestId, requestedCts, completions>>

\* the BatchOpened event of a successful openBatch: the incremented id
openBatchEvent ==
    [name |-> "BatchOpened", batchId |-> currentBatchId + 1]

openBatch(sender) ==
    LET err == openBatchRevert(sender) IN
    /\ IF err # "ok" THEN Reverted
       ELSE /\ currentBatchId < MaxBatches
            /\ currentBatchId' = currentBatchId + 1
            /\ batchOpen' = TRUE
            /\ submissionsInCurrentBatch' = 0
            /\ accSentimentScore' = FHE_asEuint32_0
            /\ accKeywordCount' = FHE_asEuint32_0
            /\ accPollOption1Count' = FHE_asEuint32_0
            /\ accPollOption2Count' = FHE_asEuint32_0
            /\ batchSubmissions' = <<>>
            /\ UNCHANGED <<owner, providers, paused, cooldownSeconds,
                           lastSubmissionTime, lastDecryptionRequestTime,
                           decryptionContexts, fheInitialized,
                           now, nextRequestId, requestedCts, completions>>

closeBatchRevert(sender) ==
    Then(onlyOwner(sender),
    Then(whenNotPaused,
    IF ~batchOpen THEN "BatchNotOpen" ELSE "ok"))

\* mutant: closeBatch clears the accumulators and the count
closeBatch_Clears(sender) ==
    LET err == closeBatchRevert(sender) IN
    /\ IF err # "ok" THEN Reverted
       ELSE /\ batchOpen' = FALSE
            /\ submissionsInCurrentBatch' = 0
            /\ accSentimentScore' = FHE_asEuint32_0
            /\ accKeywordCount' = FHE_asEuint32_0
            /\ accPollOption1Count' = FHE_asEuint32_0
            /\ accPollOption2Count' = FHE_asEuint32_0
            /\ UNCHANGED <<owner, providers, paused, cooldownSeconds,
                           lastSubmissionTime, lastDecryptionRequestTime,
                           currentBatchId, decryptionContexts, fheInitialized,
                           now, nextRequestId, requestedCts, completions,
                           batchSubmissions>>

closeBatch(sender) ==
    LET err == closeBatchRevert(sender) IN
    /\ IF err # "ok" THEN Reverted
       ELSE /\ batchOpen' = FALSE
            /\ UNCHANGED <<owner, providers, paused, cooldownSeconds,
                           lastSubmissionTime, lastDecryptionRequestTime,
                           currentBatchId, decryptionContexts,
                           accSentimentScore, accKeywordCount,
                           accPollOption1Count, accPollOption2Count,
                           submissionsInCurrentBatch, fheInitialized,
                           now, nextRequestId, requestedCts, completions, batchSubmissions>>

(* ------------------------------ submission ---------------------------- *)
\* mutant: submitEncryptedData without the whenNotPaused modifier
submitEncryptedDataRevert_NoPause(sender) ==
    Then(onlyProvider(sender),
    Then(IF ~batchOpen THEN "BatchNotOpen" ELSE "ok",
    Then(cooldownCheck(lastSubmissionTime[sender]),
    _requireInitialized)))

submitEncryptedDataRevert(sender) ==
    Then(onlyProvider(sender),
    Then(whenNotPaused,
    Then(IF ~batchOpen THEN "BatchNotOpen" ELSE "ok",
    Then(cooldownCheck(lastSubmissionTime[sender]),
    _requireInitialized))))

\* the Submission event of a successful call, with the handles it added
submissionEvent(sender, c) ==
    [name |-> "Submission", batchId |-> currentBatchId, provider |-> sender,
     handles |-> c]

\* the events a submission emits: none when it reverts
submitEncryptedDataEvents(sender, c) ==
    IF submitEncryptedDataRevert(sender) # "ok" THEN <<>>
    ELSE <<submissionEvent(sender, c)>>

submitEncryptedData(sender, c) ==
    LET err == submitEncryptedDataRevert(sender) IN
    /\ IF err # "ok" THEN Reverted
       ELSE /\ submissionsInCurrentBatch < MaxSubmissions
            /\ lastSubmissionTime' = [lastSubmissionTime EXCEPT ![sender] = now]
            /\ accSentimentScore' = fheAdd(accSentimentScore, c[1])
            /\ accKeywordCount' = fheAdd(accKeywordCount, c[2])
            /\ accPollOption1Count' = fheAdd(accPollOption1Count, c[3])
            /\ accPollOption2Count' = fheAdd(accPollOption2Count, c[4])
            /\ submissionsInCurrentBatch' = submissionsInCurrentBatch + 1
            /\ batchSubmissions' =
                   Append(batchSubmissions, submissionEvent(sender, c))
            /\ UNCHANGED <<owner, providers, paused, cooldownSeconds,
                           lastDecryptionRequestTime,
                           currentBatchId, batchOpen, decryptionContexts,
                           fheInitialized, now, nextRequestId,
                           requestedCts, completions>>

(* ------------------------- decryption request ------------------------- *)
\* the four accumulator handles in the order the code lists them
\* mutant: the handles are listed with the two poll options first
currentCts_Reordered ==
    <<FHE_toBytes32(accPollOption1Count), FHE_toBytes32(accPollOption2Count),
      FHE_toBytes32(accSentimentScore), FHE_toBytes32(accKeywordCount)>>

currentCts ==
    <<FHE_toBytes32(accSentimentScore), FHE_toBytes32(accKeywordCount),
      FHE_toBytes32(accPollOption1Count), FHE_toBytes32(accPollOption2Count)>>

currentStateHash == keccak256(currentCts, ThisAddress)

\* mutant: requestBatchDecryption without the check for an empty batch
requestBatchDecryptionRevert_NoEmptyCheck(sender) ==
    Then(onlyOwner(sender),
    Then(whenNotPaused,
    Then(IF batchOpen THEN "BatchNotClosed" ELSE "ok",
    cooldownCheck(lastDecryptionRequestTime[sender]))))

\* mutant: the request cooldown reads the submission timer
requestBatchDecryptionRevert_SharedTimer(sender) ==
    Then(onlyOwner(sender),
    Then(whenNotPaused,
    Then(IF batchOpen THEN "BatchNotClosed" ELSE "ok",
    Then(IF submissionsInCurrentBatch = 0 THEN "InvalidBatchId" ELSE "ok",
    cooldownCheck(lastSubmissionTime[sender])))))

requestBatchDecryptionRevert(sender) ==
    Then(onlyOwner(sender),
    Then(whenNotPaused,
    Then(IF batchOpen THEN "BatchNotClosed" ELSE "ok",
    Then(IF submissionsInCurrentBatch = 0 THEN "InvalidBatchId" ELSE "ok",
    cooldownCheck(lastDecryptionRequestTime[sender])))))

\* the context requestBatchDecryption stores under the new request id
newContext ==
    [batchId |-> currentBatchId, stateHash |-> currentStateHash,
     processed |-> FALSE]

\* the DecryptionRequested event of a successful request
requestBatchDecryptionEvent ==
    [name |-> "DecryptionRequested", requestId |-> nextRequestId,
     batchId |-> currentBatchId]

requestBatchDecryption(sender) ==
    LET err == requestBatchDecryptionRevert(sender) IN
    /\ IF err # "ok" THEN Reverted
       ELSE /\ nextRequestId <= MaxRequests
            /\ lastDecryptionRequestTime' =
                   [lastDecryptionRequestTime EXCEPT ![sender] = now]
            /\ nextRequestId' = nextRequestId + 1
            /\ decryptionContexts' =
                   [decryptionContexts EXCEPT ![nextRequestId] = newContext]
            /\ requestedCts' = [requestedCts EXCEPT ![nextRequestId] = currentCts]
            /\ UNCHANGED <<owner, providers, paused, cooldownSeconds,
                           lastSubmissionTime, currentBatchId, batchOpen,
                           accSentimentScore, accKeywordCount,
                           accPollOption1Count, accPollOption2Count,
                           submissionsInCurrentBatch, fheInitialized,
                           now, completions, batchSubmissions>>

(* ------------------------- decryption callback ------------------------ *)
\* mutant: the replay guard left out
replayGuard_Missing(requestId) == "ok"

\* a. replay guard
replayGuard(requestId) ==
    IF decryptionContexts[requestId].processed THEN "ReplayDetected" ELSE "ok"

\* mutant: a context with no stored hash passes the state verification
stateVerification_ZeroPasses(requestId) ==
    IF /\ decryptionContexts[requestId].stateHash # ZeroHash
       /\ currentStateHash # decryptionContexts[requestId].stateHash
    THEN "StateMismatch" ELSE "ok"

\* mutant: the state verification left out
stateVerification_Skipped(requestId) == "ok"

\* b. state verification against the accumulators as they are now
stateVerification(requestId) ==
    IF currentStateHash # decryptionContexts[requestId].stateHash
    THEN "StateMismatch" ELSE "ok"

\* mutant: the result of FHE.checkSignatures ignored
proofVerification_Unchecked(requestId, cleartexts, proof) == "ok"

\* c. proof verification
proofVerification(requestId, cleartexts, proof) ==
    IF ~FHE_checkSignatures(requestId, cleartexts, proof)
    THEN "InvalidProof" ELSE "ok"

\* mutant: the proof is verified first, then the replay guard and the state
myCallbackRevert_ProofFirst(requestId, cleartexts, proof) ==
    Then(proofVerification(requestId, cleartexts, proof),
    Then(replayGuard(requestId),
    stateVerification(requestId)))

\* mutant: only the latest request issued can be delivered
myCallbackRevert_LatestOnly(requestId, cleartexts, proof) ==
    Then(replayGuard(requestId),
    Then(IF requestId + 1 # nextRequestId THEN "StateMismatch" ELSE "ok",
    Then(stateVerification(requestId),
    proofVerification(requestId, cleartexts, proof))))

\* mutant: the callback carries the whenNotPaused modifier
myCallbackRevert_WhenNotPaused(requestId, cleartexts, proof) ==
    Then(whenNotPaused,
    Then(replayGuard(requestId),
    Then(stateVerification(requestId),
    proofVerification(requestId, cleartexts, proof))))

myCallbackRevert(requestId, cleartexts, proof) ==
    Then(replayGuard(requestId),
    Then(stateVerification(requestId),
    proofVerification(requestId, cleartexts, proof)))

\* mutant: the context is deleted once it is finalized
finalized_Deleted(ctx) == DefaultContext

\* the context after d. finalize
finalized(ctx) == [ctx EXCEPT !.processed = TRUE]

\* d. decode: the DecryptionCompleted event of a successful callback
completedEvent(requestId, cleartexts) ==
    [name |-> "DecryptionCompleted", requestId |-> requestId,
     batchId |-> decryptionContexts[requestId].batchId,
     sentimentScore |-> abiDecodeWord(cleartexts, 1),
     keywordCount |-> abiDecodeWord(cleartexts, 2),
     pollOption1Count |-> abiDecodeWord(cleartexts, 3),
     pollOption2Count |-> abiDecodeWord(cleartexts, 4)]

\* mutant: DecryptionCompleted is emitted before the checks, also when
\* the callback then reverts
myCallbackEvents_BeforeChecks(requestId, cleartexts, proof) ==
    <<completedEvent(requestId, cleartexts)>>

\* the events a callback emits: none when it reverts
myCallbackEvents(requestId, cleartexts, proof) ==
    IF myCallbackRevert(requestId, cleartexts, proof) # "ok" THEN <<>>
    ELSE <<completedEvent(requestId, cleartexts)>>

\* mutant: processed is set before the proof is verified, and stays set
contextAfterCallback_EarlyMark(requestId, err) ==
    IF err \in {"ok", "InvalidProof"}
    THEN [decryptionContexts[requestId] EXCEPT !.processed = TRUE]
    ELSE decryptionContexts[requestId]

\* decryptionContexts[requestId] after a callback that ended with err
contextAfterCallback(requestId, err) ==
    IF err = "ok" THEN finalized(decryptionContexts[requestId])
    ELSE decryptionContexts[requestId]

\* history record of a successful callback
completion(requestId, proof) ==
    [proof |-> proof,
     batchId |-> decryptionContexts[requestId].batchId,
     matched |-> requestedCts[requestId] = currentCts]

myCallback(requestId, cleartexts, proof) ==
    LET err == myCallbackRevert(requestId, cleartexts, proof) IN
    /\ decryptionContexts' =
           [decryptionContexts EXCEPT
               ![requestId] = contextAfterCallback(requestId, err)]
    /\ completions' =
           IF err = "ok" /\ Len(completions[requestId]) < 2
           THEN [completions EXCEPT
                    ![requestId] = Append(@, completion(requestId, proof))]
           ELSE completions
    /\ UNCHANGED <<owner, providers, paused, cooldownSeconds,
                   lastSubmissionTime, lastDecryptionRequestTime,
                   currentBatchId, batchOpen,
                   accSentimentScore, accKeywordCount,
                   accPollOption1Count, accPollOption2Count,
                   submissionsInCurrentBatch, fheInitialized,
                   now, nextRequestId, requestedCts, batchSubmissions>>

(* ------------------------------ the clock ----------------------------- *)
\* a later block: block.timestamp advances
Tick(d) ==
    /\ now + d <= MaxTime
    /\ now' = now + d
    /\ UNCHANGED <<storage, nextRequestId, requestedCts, completions, batchSubmissions>>

(* ---------------------------- specification --------------------------- *)
Next ==
    \/ \E s \in Addresses, n \in Addresses : transferOwnership(s, n)
    \/ \E s \in Addresses, p \in Addresses : addProvider(s, p)
    \/ \E s \in Addresses, p \in Addresses : removeProvider(s, p)
    \/ \E s \in Addresses, b \in BOOLEAN : setPaused(s, b)
    \/ \E s \in Addresses, v \in CooldownInputs : setCooldownSeconds(s, v)
    \/ \E s \in Addresses : openBatch(s)
    \/ \E s \in Addresses : closeBatch(s)
    \/ \E s \in Addresses : \E c \in InputHandles(s) : submitEncryptedData(s, c)
    \/ \E s \in Addresses : requestBatchDecryption(s)
    \/ \E r \in RequestIds, d \in Deliveries : myCallback(r, d[1], d[2])
    \/ \E d \in Deltas : Tick(d)

Spec == Init /\ [][Next]_vars

\* the oracle answers: a delivery of the totals with a valid proof that
\* can succeed is not postponed forever
FairSpec ==
    /\ Spec
    /\ \A r \in RequestIds : WF_vars(myCallback(r, <<2, 6, 2, 0>>, "valid"))

(* ============================== claims ================================ *)
\* requestId r was returned by a successful requestBatchDecryption
Issued(r) == r < nextRequestId

\* a callback for r would pass the state verification now
Matches(r) == currentStateHash = decryptionContexts[r].stateHash

(* C1: a requestId is delivered successfully at most once; after a        *)
(* successful delivery every further delivery of it, whatever the proof   *)
(* and the cleartexts, reverts with ReplayDetected, emits no event and     *)
(* changes no state.                                                       *)
C1_AtMostOnce ==
    \A r \in RequestIds :
        /\ Len(completions[r]) <= 1
        /\ Len(completions[r]) = 1 =>
               \A c \in Cleartexts, p \in Proofs :
                   /\ myCallbackRevert(r, c, p) = "ReplayDetected"
                   /\ myCallbackEvents(r, c, p) = <<>>
                   /\ contextAfterCallback(r, myCallbackRevert(r, c, p))
                          = decryptionContexts[r]

\* a delivered request whose commitment still matches: only the replay
\* guard stands between a second valid delivery and a second completion
C1_Witness ==
    \E r \in RequestIds :
        /\ Len(completions[r]) = 1
        /\ Matches(r)
        /\ myCallbackRevert(r, <<2, 6, 2, 0>>, "valid") = "ReplayDetected"

(* C2: a context, once created, is never deleted or overwritten: its      *)
(* batchId and stateHash never change and processed never returns from    *)
(* true to false, whatever is called afterwards.                           *)
C2_ContextStable ==
    [][\A r \in RequestIds :
          Issued(r) =>
              /\ decryptionContexts'[r].batchId = decryptionContexts[r].batchId
              /\ decryptionContexts'[r].stateHash = decryptionContexts[r].stateHash
              /\ (decryptionContexts[r].processed
                     => decryptionContexts'[r].processed)]_vars

\* a processed context that has seen a later request and a later batch
C2_Witness ==
    \E r \in RequestIds :
        /\ Issued(r) /\ Issued(r + 1)
        /\ decryptionContexts[r].processed
        /\ decryptionContexts[r].batchId < currentBatchId
        /\ decryptionContexts[r].batchId >= 1

(* C3: when one of the four accumulator handles is no longer the one     *)
(* the request was made for, a callback for that request reverts with     *)
(* StateMismatch for every proof and all cleartexts (the claim as stated: *)
(* also when the request was processed before).                            *)
C3_Original ==
    \A r \in RequestIds, c \in Cleartexts, p \in Proofs :
        (Issued(r) /\ requestedCts[r] # currentCts)
            => myCallbackRevert(r, c, p) = "StateMismatch"

(* C3 as amended: the same for a request that is not processed yet (a     *)
(* processed one is rejected as a replay before the state is compared).    *)
C3_MismatchRejected ==
    \A r \in RequestIds :
        (/\ Issued(r)
         /\ ~decryptionContexts[r].processed
         /\ \E i \in 1..4 : requestedCts[r][i] # currentCts[i])
            => \A c \in Cleartexts, p \in Proofs :
                   myCallbackRevert(r, c, p) = "StateMismatch"

\* a pending request, and accumulators that have moved on since
C3_Witness ==
    \E r \in RequestIds :
        /\ Issued(r)
        /\ ~decryptionContexts[r].processed
        /\ submissionsInCurrentBatch > 0
        /\ requestedCts[r] # currentCts
        /\ myCallbackRevert(r, <<2, 6, 2, 0>>, "valid") = "StateMismatch"

(* C4: a request made for closed batch k still finalizes after batch k+1  *)
(* has been opened: a callback with a valid proof for it succeeds and     *)
(* emits DecryptionCompleted with batchId k.                               *)
C4_FinalizesAfterReopen ==
    \A r \in RequestIds, c \in Cleartexts :
        (/\ Issued(r)
         /\ ~decryptionContexts[r].processed
         /\ decryptionContexts[r].batchId < currentBatchId)
            => /\ myCallbackRevert(r, c, "valid") = "ok"
               /\ myCallbackEvents(r, c, "valid")[1].batchId
                      = decryptionContexts[r].batchId

(* C5: a callback that reverts with InvalidProof or StateMismatch leaves  *)
(* the context as it was, processed = false, and emits nothing; after an  *)
(* InvalidProof the same request can be delivered with a valid proof.      *)
C5_FailedDeliveryKeepsPending ==
    \A r \in RequestIds, c \in Cleartexts, p \in Proofs :
        LET err == myCallbackRevert(r, c, p) IN
        err \in {"InvalidProof", "StateMismatch"} =>
            /\ ~contextAfterCallback(r, err).processed
            /\ contextAfterCallback(r, err) = decryptionContexts[r]
            /\ myCallbackEvents(r, c, p) = <<>>
            /\ err = "InvalidProof" => myCallbackRevert(r, c, "valid") = "ok"

\* a pending request that a forged proof fails on and a valid one passes
C5_Witness ==
    \E r \in RequestIds :
        /\ Issued(r)
        /\ ~decryptionContexts[r].processed
        /\ myCallbackRevert(r, <<2, 6, 1, 1>>, "forged") = "InvalidProof"
        /\ myCallbackRevert(r, <<2, 6, 2, 0>>, "valid") = "ok"

(* C6: processed is true only for a request one callback has finalized,   *)
(* and that callback had a valid proof and found the accumulators as the  *)
(* request had recorded them; nothing else sets processed.                 *)
C6_ProcessedOnlyByVerifiedCallback ==
    \A r \in RequestIds :
        decryptionContexts[r].processed =>
            /\ Issued(r)
            /\ Len(completions[r]) = 1
            /\ completions[r][1].proof = "valid"
            /\ completions[r][1].matched

\* a finalized request
C6_Witness ==
    \E r \in RequestIds :
        /\ decryptionContexts[r].processed
        /\ completions[r] # <<>>
        /\ completions[r][1].batchId = decryptionContexts[r].batchId

(* C7: a callback for a requestId no request ever returned reverts with   *)
(* UnknownRequest.                                                         *)
C7_UnknownRequest ==
    \A r \in RequestIds, c \in Cleartexts, p \in Proofs :
        ~Issued(r) => myCallbackRevert(r, c, p) = "UnknownRequest"

(* C8: pause does not block the callback: for a pending request whose     *)
(* commitment matches, a callback with a valid proof succeeds, paused or  *)
(* not, marks the context processed and emits DecryptionCompleted.         *)
C8_PauseDoesNotBlockCallback ==
    \A r \in RequestIds :
        (Issued(r) /\ ~decryptionContexts[r].processed /\ Matches(r)) =>
            /\ contextAfterCallback(r, "ok").processed
            /\ \A c \in Cleartexts :
                   /\ myCallbackRevert(r, c, "valid") = "ok"
                   /\ myCallbackEvents(r, c, "valid") =
                          <<completedEvent(r, c)>>

\* paused, with a pending request whose callback would succeed
C8_Witness ==
    /\ paused
    /\ \E r \in RequestIds :
           /\ Issued(r)
           /\ ~decryptionContexts[r].processed
           /\ Matches(r)
           /\ myCallbackRevert(r, <<2, 6, 2, 0>>, "valid") = "ok"

(* C9: no submission succeeds while the batch is closed, while the system *)
(* is paused, or from a sender that is not a provider: such a call        *)
(* reverts, and every step that counts a submission is taken with the     *)
(* batch open, the system unpaused and by a current provider.              *)
C9_SubmissionGates ==
    /\ [](\A s \in Addresses :
            (~batchOpen \/ paused \/ s \notin providers)
                => submitEncryptedDataRevert(s) # "ok")
    /\ [][submissionsInCurrentBatch' > submissionsInCurrentBatch =>
            /\ batchOpen /\ ~paused
            /\ \E s \in providers :
                   lastSubmissionTime'[s] # lastSubmissionTime[s]]_vars

\* a removed provider that had submitted before: open batch, not paused,
\* cooldown over, and the provider gate alone rejects it
C9_Witness ==
    \E s \in Addresses :
        /\ s \notin providers
        /\ lastSubmissionTime[s] > 0
        /\ batchOpen /\ ~paused
        /\ cooldownCheck(lastSubmissionTime[s]) = "ok"
        /\ submitEncryptedDataRevert(s) = "NotProvider"

(* C10: a second submission of a provider less than cooldownSeconds after *)
(* its last successful one reverts with CooldownActive, and one at least  *)
(* cooldownSeconds after it passes the cooldown gate.                      *)
C10_CooldownActive ==
    \A s \in Addresses :
        (s \in providers /\ ~paused /\ batchOpen /\ lastSubmissionTime[s] > 0) =>
            IF now < lastSubmissionTime[s] + cooldownSeconds
            THEN submitEncryptedDataRevert(s) = "CooldownActive"
            ELSE submitEncryptedDataRevert(s) = "ok"

(* C11: the two timers of one identity are independent.  A step that      *)
(* records a submission time changes no decryption-request time and no    *)
(* outcome of the request cooldown check, a step that records a request   *)
(* time changes no submission time and no outcome of the submission       *)
(* cooldown check, and a call fails with CooldownActive only when its own *)
(* timer says so, whatever the other timer holds.                          *)
C11_TimersIndependent ==
    /\ [](\A s \in Addresses :
            /\ requestBatchDecryptionRevert(s) = "CooldownActive"
                   => now < lastDecryptionRequestTime[s] + cooldownSeconds
            /\ submitEncryptedDataRevert(s) = "CooldownActive"
                   => now < lastSubmissionTime[s] + cooldownSeconds)
    /\ [][/\ lastSubmissionTime' # lastSubmissionTime =>
                /\ lastDecryptionRequestTime' = lastDecryptionRequestTime
                /\ \A s \in Addresses :
                       cooldownCheck(lastDecryptionRequestTime[s])'
                           = cooldownCheck(lastDecryptionRequestTime[s])
          /\ lastDecryptionRequestTime' # lastDecryptionRequestTime =>
                /\ lastSubmissionTime' = lastSubmissionTime
                /\ \A s \in Addresses :
                       cooldownCheck(lastSubmissionTime[s])'
                           = cooldownCheck(lastSubmissionTime[s])]_vars

\* an identity that has just submitted, so that its submission cooldown is
\* running, and whose decryption request passes at the same timestamp
C11_Witness ==
    \E s \in Addresses :
        /\ lastSubmissionTime[s] = now
        /\ lastDecryptionRequestTime[s] = 0
        /\ cooldownCheck(lastSubmissionTime[s]) = "CooldownActive"
        /\ requestBatchDecryptionRevert(s) = "ok"

\* the homomorphic sum, from the additive identity, of word i of the
\* submissions in log, in the order of the log
RECURSIVE HomomorphicSum(_, _)
HomomorphicSum(log, i) ==
    IF log = <<>> THEN FHE_asEuint32_0
    ELSE fheAdd(HomomorphicSum(SubSeq(log, 1, Len(log) - 1), i),
                log[Len(log)].handles[i])

(* C12: while a batch is open, each of the four accumulators is the       *)
(* homomorphic sum, from the additive identity, of the corresponding      *)
(* handles of exactly the successful submissions made since the batch was *)
(* opened, in arrival order, and submissionsInCurrentBatch is their       *)
(* number; a rejected submission adds nothing.                             *)
C12_AccumulatorsAreSums ==
    batchOpen =>
        /\ accSentimentScore = HomomorphicSum(batchSubmissions, 1)
        /\ accKeywordCount = HomomorphicSum(batchSubmissions, 2)
        /\ accPollOption1Count = HomomorphicSum(batchSubmissions, 3)
        /\ accPollOption2Count = HomomorphicSum(batchSubmissions, 4)
        /\ submissionsInCurrentBatch = Len(batchSubmissions)
        /\ \A k \in 1..Len(batchSubmissions) :
               batchSubmissions[k].batchId = currentBatchId

\* the second batch, open, with submissions of two providers in it, and
\* a further submission that is rejected
C12_Witness ==
    /\ batchOpen
    /\ currentBatchId = 2
    /\ Len(batchSubmissions) = 2
    /\ batchSubmissions[1].provider # batchSubmissions[2].provider
    /\ accSentimentScore # <<>>
    /\ \E s \in Addresses : submitEncryptedDataRevert(s) = "CooldownActive"

(* C13: a submission that fails at a gate (sender not a provider, system  *)
(* paused, no open batch, cooldown running) reverts and emits no          *)
(* Submission event, and it has no effect on the state: a step changes a  *)
(* sender's lastSubmissionTime only when that sender's call passes every  *)
(* gate, and the count is raised and the accumulators are extended only   *)
(* by the handles of a sender whose call passes every gate, together with *)
(* its Submission event.                                                   *)
C13_FailedSubmissionChangesNothing ==
    /\ [](\A s \in Addresses : \A c \in InputHandles(s) :
            (\/ s \notin providers
             \/ paused
             \/ ~batchOpen
             \/ now < lastSubmissionTime[s] + cooldownSeconds)
                => /\ submitEncryptedDataRevert(s) # "ok"
                   /\ submitEncryptedDataEvents(s, c) = <<>>)
    /\ [][/\ \A s \in Addresses :
                lastSubmissionTime'[s] # lastSubmissionTime[s]
                    => submitEncryptedDataRevert(s) = "ok"
          /\ (\/ submissionsInCurrentBatch' > submissionsInCurrentBatch
              \/ accSentimentScore' \notin {accSentimentScore, <<>>}) =>
                \E s \in Addresses : \E c \in InputHandles(s) :
                    /\ submitEncryptedDataRevert(s) = "ok"
                    /\ batchSubmissions' =
                           Append(batchSubmissions, submissionEvent(s, c))
                    /\ accSentimentScore' = fheAdd(accSentimentScore, c[1])
                    /\ accKeywordCount' = fheAdd(accKeywordCount, c[2])
                    /\ accPollOption1Count' = fheAdd(accPollOption1Count, c[3])
                    /\ accPollOption2Count' = fheAdd(accPollOption2Count, c[4])]_vars

\* a provider with handles in the accumulators of the open batch whose
\* next submission is stopped by the cooldown gate alone
C13_Witness ==
    \E s \in providers :
        /\ batchOpen /\ ~paused
        /\ submissionsInCurrentBatch > 0
        /\ lastSubmissionTime[s] = now
        /\ submitEncryptedDataRevert(s) = "CooldownActive"

(* C14: the batch ledger is a two-state machine that starts closed: for   *)
(* the owner of an unpaused system openBatch succeeds exactly when no     *)
(* batch is open and closeBatch exactly when one is; openBatch with a     *)
(* batch open reverts with BatchAlreadyOpen and closeBatch with none open *)
(* reverts with BatchNotOpen.                                              *)
C14_BatchLifecycle ==
    \A s \in Addresses :
        (s = owner /\ ~paused) =>
            /\ openBatchRevert(s) = "ok" <=> ~batchOpen
            /\ closeBatchRevert(s) = "ok" <=> batchOpen
            /\ batchOpen => openBatchRevert(s) = "BatchAlreadyOpen"
            /\ ~batchOpen => closeBatchRevert(s) = "BatchNotOpen"

(* C15: batch ids are assigned monotonically and never reused:            *)
(* currentBatchId starts at 0, never decreases, changes only in a         *)
(* successful openBatch, there by exactly +1, and the BatchOpened event   *)
(* of every opening carries the new id, greater than every id before.      *)
C15_BatchIdsMonotonic ==
    /\ currentBatchId = 0
    /\ [][/\ currentBatchId' >= currentBatchId
          /\ currentBatchId' # currentBatchId =>
                /\ currentBatchId' = currentBatchId + 1
                /\ openBatchRevert(owner) = "ok"
                /\ ~batchOpen /\ batchOpen'
          /\ (~batchOpen /\ batchOpen') =>
                /\ openBatchEvent.batchId = currentBatchId'
                /\ openBatchEvent.batchId > currentBatchId]_vars

\* the second batch is open, and the first one has a decryption request
C15_Witness ==
    /\ currentBatchId = 2
    /\ batchOpen
    /\ \E r \in RequestIds : Issued(r) /\ decryptionContexts[r].batchId = 1

(* C16: requestBatchDecryption succeeds only with the batch closed and    *)
(* submissionsInCurrentBatch > 0: for the owner of an unpaused system it  *)
(* reverts with BatchStillOpen while a batch is open and with EmptyBatch  *)
(* when the batch is closed and has no submissions.                        *)
C16_RequestGates ==
    \A s \in Addresses :
        (s = owner /\ ~paused) =>
            /\ requestBatchDecryptionRevert(s) = "ok"
                   => (~batchOpen /\ submissionsInCurrentBatch > 0)
            /\ batchOpen
                   => requestBatchDecryptionRevert(s) = "BatchStillOpen"
            /\ (~batchOpen /\ submissionsInCurrentBatch = 0)
                   => requestBatchDecryptionRevert(s) = "EmptyBatch"

\* request r was made for the current batch, which two distinct providers
\* submitted to once each before it was closed
EndToEndRun(r) ==
    /\ Issued(r)
    /\ decryptionContexts[r].batchId = currentBatchId
    /\ Len(batchSubmissions) = 2
    /\ batchSubmissions[1].provider # batchSubmissions[2].provider

(* C17: end to end.  After openBatch, one submission each of two distinct *)
(* providers, closeBatch and the owner's requestBatchDecryption, the      *)
(* delivery of four totals with a valid proof succeeds: it emits one      *)
(* DecryptionCompleted with the request id, the id of the closed batch    *)
(* and the four delivered values in the order sentiment, keyword,         *)
(* pollOption1, pollOption2, and sets processed; once that has happened,  *)
(* the same delivery again reverts with ReplayDetected and emits nothing.  *)
C17_EndToEnd ==
    \A r \in RequestIds :
        EndToEndRun(r) => \A c \in Cleartexts :
            /\ ~batchOpen
            /\ ~decryptionContexts[r].processed =>
                   /\ completions[r] = <<>>
                   /\ myCallbackRevert(r, c, "valid") = "ok"
                   /\ myCallbackEvents(r, c, "valid") =
                          <<[name |-> "DecryptionCompleted",
                             requestId |-> r,
                             batchId |-> currentBatchId,
                             sentimentScore |-> c[1],
                             keywordCount |-> c[2],
                             pollOption1Count |-> c[3],
                             pollOption2Count |-> c[4]]>>
                   /\ contextAfterCallback(r, "ok").processed
            /\ decryptionContexts[r].processed =>
                   /\ Len(completions[r]) = 1
                   /\ completions[r][1].batchId = currentBatchId
                   /\ myCallbackRevert(r, c, "valid") = "ReplayDetected"
                   /\ myCallbackEvents(r, c, "valid") = <<>>

\* the run has been made and its delivery has succeeded
C17_Witness ==
    \E r \in RequestIds :
        /\ EndToEndRun(r)
        /\ currentBatchId = 1
        /\ submissionsInCurrentBatch = 2
        /\ decryptionContexts[r].processed
        /\ completions[r] # <<>>
        /\ completions[r][1].proof = "valid"
        /\ myCallbackRevert(r, <<2, 6, 2, 0>>, "valid") = "ReplayDetected"

(* C18: while paused, submitEncryptedData, openBatch, closeBatch and      *)
(* requestBatchDecryption revert for every caller, the owner included,    *)
(* and no step changes the batch, the accumulators, a timer or the        *)
(* request counter; setPaused, transferOwnership, addProvider,            *)
(* removeProvider and setCooldownSeconds (with a positive value) still    *)
(* succeed for the owner, so the owner can unpause.                        *)
C18_PausedBlocksOperations ==
    /\ [](paused =>
            /\ \A s \in Addresses :
                   /\ submitEncryptedDataRevert(s) # "ok"
                   /\ openBatchRevert(s) # "ok"
                   /\ closeBatchRevert(s) # "ok"
                   /\ requestBatchDecryptionRevert(s) # "ok"
            /\ setPausedRevert(owner) = "ok"
            /\ transferOwnershipRevert(owner) = "ok"
            /\ addProviderRevert(owner) = "ok"
            /\ removeProviderRevert(owner) = "ok"
            /\ \A v \in CooldownInputs \ {0} :
                   setCooldownSecondsRevert(owner, v) = "ok")
    /\ [][paused =>
            UNCHANGED <<currentBatchId, batchOpen, submissionsInCurrentBatch,
                        accSentimentScore, accKeywordCount,
                        accPollOption1Count, accPollOption2Count,
                        lastSubmissionTime, lastDecryptionRequestTime,
                        nextRequestId, batchSubmissions>>]_vars

\* paused, with a batch open and the owner a provider whose cooldown is
\* over: only the pause stands between the owner and each operation
C18_Witness ==
    /\ paused
    /\ batchOpen
    /\ owner \in providers
    /\ submitEncryptedDataRevert(owner) = "Paused"
    /\ cooldownCheck(lastSubmissionTime[owner]) = "ok"
    /\ closeBatchRevert(owner) = "Paused"
    /\ setPausedRevert(owner) = "ok"

(* C19: every owner-gated function (transferOwnership, addProvider,       *)
(* removeProvider, setPaused, setCooldownSeconds, openBatch, closeBatch,  *)
(* requestBatchDecryption) called by an address that is not the current   *)
(* owner reverts with NotOwner, and so changes nothing, also when the     *)
(* caller is a provider or was the owner before.                           *)
C19_OnlyOwner ==
    \A s \in Addresses :
        s # owner =>
            /\ transferOwnershipRevert(s) = "NotOwner"
            /\ addProviderRevert(s) = "NotOwner"
            /\ removeProviderRevert(s) = "NotOwner"
            /\ setPausedRevert(s) = "NotOwner"
            /\ \A v \in CooldownInputs :
                   setCooldownSecondsRevert(s, v) = "NotOwner"
            /\ openBatchRevert(s) = "NotOwner"
            /\ closeBatchRevert(s) = "NotOwner"
            /\ requestBatchDecryptionRevert(s) = "NotOwner"

\* the deployer has handed ownership over and is still a provider; the
\* batch is closed with submissions in it and the system is not paused,
\* so that the owner gate alone rejects the deployer's calls
C19_Witness ==
    /\ owner = "alice"
    /\ "deployer" \in providers
    /\ ~paused /\ ~batchOpen
    /\ submissionsInCurrentBatch > 0
    /\ openBatchRevert("deployer") = "NotOwner"
    /\ requestBatchDecryptionRevert("deployer") = "NotOwner"
    /\ requestBatchDecryptionRevert("alice") = "ok"

(* C20: cooldownSeconds is strictly positive in every reachable state:    *)
(* it starts positive, setCooldownSeconds(0) reverts with                 *)
(* InvalidParameter for the owner and so leaves the old value, and a      *)
(* setCooldownSeconds(v) that succeeds has v > 0 and sets the value to v.  *)
C20_CooldownPositive ==
    /\ cooldownSeconds > 0
    /\ cooldownSeconds \in (CooldownInputs \cup {DefaultCooldown}) \ {0}
    /\ setCooldownSecondsRevert(owner, 0) = "InvalidParameter"
    /\ \A s \in Addresses, v \in CooldownInputs :
           /\ setCooldownSecondsRevert(s, v) = "ok" => v > 0
           /\ (s = owner /\ v > 0) => setCooldownSecondsRevert(s, v) = "ok"

\* the owner has changed the cooldown, and a further change to 0 is
\* rejected
C20_Witness ==
    /\ cooldownSeconds = UINT_MAX
    /\ setCooldownSecondsRevert(owner, 0) = "InvalidParameter"
    /\ setCooldownSecondsRevert(owner, DefaultCooldown) = "ok"

(* C21: a closed batch has at most one outstanding decryption request:    *)
(* no two different requests that were created for the same batch id are  *)
(* unprocessed at the same time.                                           *)
C21_OneOutstandingRequest ==
    \A r1 \in RequestIds, r2 \in RequestIds :
        (/\ r1 # r2
         /\ Issued(r1) /\ Issued(r2)
         /\ decryptionContexts[r1].batchId = decryptionContexts[r2].batchId)
            => (decryptionContexts[r1].processed
                    \/ decryptionContexts[r2].processed)

(* C22: DecryptionCompleted is emitted only by a callback that succeeds,  *)
(* which is the step that sets processed; it carries the request id, the  *)
(* batchId recorded in the context and the four words of the delivered    *)
(* cleartexts in the order sentiment, keyword, pollOption1, pollOption2;  *)
(* a request has a publication exactly when it is processed.               *)
C22_CompletedOnlyOnSuccess ==
    \A r \in RequestIds :
        /\ Len(completions[r]) = (IF decryptionContexts[r].processed THEN 1 ELSE 0)
        /\ \A c \in Cleartexts, p \in Proofs :
               LET err == myCallbackRevert(r, c, p)
                   ev == myCallbackEvents(r, c, p) IN
               /\ Len(ev) <= 1
               /\ ev # <<>> <=> err = "ok"
               /\ err = "ok" =>
                      /\ ~decryptionContexts[r].processed
                      /\ contextAfterCallback(r, err).processed
                      /\ ev[1].name = "DecryptionCompleted"
                      /\ ev[1].requestId = r
                      /\ ev[1].batchId = decryptionContexts[r].batchId
                      /\ <<ev[1].sentimentScore, ev[1].keywordCount,
                           ev[1].pollOption1Count, ev[1].pollOption2Count>> = c

\* one request has been published, another one is pending and a forged
\* delivery for it publishes nothing
C22_Witness ==
    \E r1 \in RequestIds, r2 \in RequestIds :
        /\ Len(completions[r1]) = 1
        /\ Issued(r2) /\ ~decryptionContexts[r2].processed
        /\ myCallbackRevert(r2, <<2, 6, 1, 1>>, "forged") = "InvalidProof"
        /\ myCallbackEvents(r2, <<2, 6, 1, 1>>, "forged") = <<>>

(* C23: a successful openBatch, the step in which batchOpen becomes true, *)
(* sets all four accumulators to the handle of zero and                   *)
(* submissionsInCurrentBatch to 0, whatever the previous batch had        *)
(* accumulated, so that nothing of an earlier batch is in the new one.     *)
C23_OpenBatchResets ==
    [][(~batchOpen /\ batchOpen') =>
          /\ accSentimentScore' = FHE_asEuint32_0
          /\ accKeywordCount' = FHE_asEuint32_0
          /\ accPollOption1Count' = FHE_asEuint32_0
          /\ accPollOption2Count' = FHE_asEuint32_0
          /\ submissionsInCurrentBatch' = 0]_vars

\* the second batch has just been opened, empty, after a first batch that
\* had submissions and a decryption request
C23_Witness ==
    /\ batchOpen
    /\ currentBatchId = 2
    /\ submissionsInCurrentBatch = 0
    /\ accSentimentScore = FHE_asEuint32_0
    /\ \E r \in RequestIds :
           /\ Issued(r)
           /\ decryptionContexts[r].batchId = 1
           /\ requestedCts[r] # currentCts

(* C24: the accumulators and the count change only through a successful   *)
(* submission to an open batch, which adds one handle to each accumulator *)
(* and one to the count, or through the reset of a successful openBatch;  *)
(* while the batch is closed and stays closed, no step (closeBatch,       *)
(* requestBatchDecryption, myCallback, a rejected submission, an          *)
(* administrative call) changes any of them.                               *)
C24_AccumulatorsFrozenWhileClosed ==
    [][LET frozen == UNCHANGED <<accSentimentScore, accKeywordCount,
                                 accPollOption1Count, accPollOption2Count,
                                 submissionsInCurrentBatch>>
       IN  /\ ~batchOpen' => frozen
           /\ ~frozen =>
                 \/ /\ ~batchOpen /\ batchOpen'
                    /\ openBatchRevert(owner) = "ok"
                 \/ /\ batchOpen /\ batchOpen'
                    /\ submissionsInCurrentBatch' = submissionsInCurrentBatch + 1
                    /\ \E s \in Addresses : \E c \in InputHandles(s) :
                           /\ submitEncryptedDataRevert(s) = "ok"
                           /\ accSentimentScore' = fheAdd(accSentimentScore, c[1])
                           /\ accKeywordCount' = fheAdd(accKeywordCount, c[2])
                           /\ accPollOption1Count' = fheAdd(accPollOption1Count, c[3])
                           /\ accPollOption2Count' = fheAdd(accPollOption2Count, c[4])]_vars

\* a closed batch that has been requested and delivered, with its
\* accumulators still as they were when it was closed
C24_Witness ==
    /\ ~batchOpen
    /\ submissionsInCurrentBatch = 2
    /\ Len(accSentimentScore) = 2
    /\ \E r \in RequestIds :
           /\ decryptionContexts[r].processed
           /\ decryptionContexts[r].batchId = currentBatchId
           /\ requestedCts[r] = currentCts

(* C25: a successful requestBatchDecryption, the step in which the oracle *)
(* issues a request id, is taken with the batch closed and not empty, and *)
(* stores under that id a context with the id of the closed batch,        *)
(* processed = false and stateHash = keccak256 of the four accumulator    *)
(* handles in the order sentiment, keyword, pollOption1, pollOption2      *)
(* together with address(this); it emits DecryptionRequested(requestId,   *)
(* batchId), touches no other context and changes no accumulator, count   *)
(* or batch state.                                                         *)
C25_RequestStoresContext ==
    [][nextRequestId' # nextRequestId =>
          /\ nextRequestId' = nextRequestId + 1
          /\ ~batchOpen /\ submissionsInCurrentBatch > 0
          /\ decryptionContexts' =
                 [decryptionContexts EXCEPT ![nextRequestId] =
                     [batchId |-> currentBatchId,
                      stateHash |->
                          <<"keccak256",
                            <<accSentimentScore, accKeywordCount,
                              accPollOption1Count, accPollOption2Count>>,
                            ThisAddress>>,
                      processed |-> FALSE]]
          /\ requestBatchDecryptionEvent =
                 [name |-> "DecryptionRequested",
                  requestId |-> nextRequestId,
                  batchId |-> decryptionContexts'[nextRequestId].batchId]
          /\ UNCHANGED <<accSentimentScore, accKeywordCount,
                         accPollOption1Count, accPollOption2Count,
                         submissionsInCurrentBatch, batchOpen,
                         currentBatchId>>]_vars

\* a request made for the second batch, whose four accumulators hold
\* different handles, still pending
C25_Witness ==
    \E r \in RequestIds :
        /\ Issued(r)
        /\ ~decryptionContexts[r].processed
        /\ decryptionContexts[r].batchId = 2
        /\ decryptionContexts[r].stateHash = currentStateHash
        /\ accSentimentScore # accPollOption1Count

(* C26: the commitment check binds a delivery to the batch of its         *)
(* context: whenever a callback for a context with batchId b passes its   *)
(* checks, the accumulators it compared against are those of batch b,     *)
(* that is, b is the batch the accumulators currently belong to.           *)
C26_CommitmentBindsBatch ==
    \A r \in RequestIds, c \in Cleartexts :
        (Issued(r) /\ myCallbackRevert(r, c, "valid") = "ok")
            => decryptionContexts[r].batchId = currentBatchId

(* C27: the callback applies its checks in the order replay, commitment,  *)
(* proof: for a processed request it reverts with ReplayDetected also     *)
(* when the accumulators have changed since or the proof is invalid, and  *)
(* for an unprocessed context whose commitment does not match the current *)
(* accumulators it reverts with StateMismatch also when the proof is      *)
(* invalid; InvalidProof is left for an unprocessed, matching context.     *)
C27_CheckOrder ==
    \A r \in RequestIds :
        LET replayed == decryptionContexts[r].processed
            mismatch == ~Matches(r) IN
        \A c \in Cleartexts, p \in Proofs :
            myCallbackRevert(r, c, p) =
                IF replayed THEN "ReplayDetected"
                ELSE IF mismatch THEN "StateMismatch"
                ELSE IF p # "valid" THEN "InvalidProof"
                ELSE "ok"

\* a processed request and a pending one, both overtaken by a new batch:
\* a forged delivery gets ReplayDetected for the first and StateMismatch
\* for the second
C27_Witness ==
    \E r1 \in RequestIds, r2 \in RequestIds :
        /\ decryptionContexts[r1].processed
        /\ ~Matches(r1)
        /\ myCallbackRevert(r1, <<2, 6, 1, 1>>, "forged") = "ReplayDetected"
        /\ Issued(r2)
        /\ ~decryptionContexts[r2].processed
        /\ ~Matches(r2)
        /\ myCallbackRevert(r2, <<2, 6, 1, 1>>, "forged") = "StateMismatch"

(* C28: decryption requests are rate limited per identity: a request of   *)
(* the owner less than cooldownSeconds after that owner's last successful *)
(* request reverts with CooldownActive, so that two successful requests   *)
(* of one identity are never less than cooldownSeconds apart.              *)
C28_RequestCooldown ==
    \A s \in Addresses :
        (/\ s = owner /\ ~paused /\ ~batchOpen
         /\ submissionsInCurrentBatch > 0
         /\ lastDecryptionRequestTime[s] > 0
         /\ now < lastDecryptionRequestTime[s] + cooldownSeconds)
            => requestBatchDecryptionRevert(s) = "CooldownActive"

(* C29: for every address, lastSubmissionTime and                         *)
(* lastDecryptionRequestTime never decrease and never lie in the future;  *)
(* each changes only in a successful call of its own kind by that address *)
(* (submitEncryptedData, requestBatchDecryption) and is then the current  *)
(* block timestamp.                                                        *)
C29_TimestampsMonotonic ==
    /\ [](\A s \in Addresses :
            /\ lastSubmissionTime[s] <= now
            /\ lastDecryptionRequestTime[s] <= now)
    /\ [][/\ lastSubmissionTime' # lastSubmissionTime =>
                \A s \in Addresses :
                    \/ lastSubmissionTime'[s] = lastSubmissionTime[s]
                    \/ /\ submitEncryptedDataRevert(s) = "ok"
                       /\ lastSubmissionTime'[s] = now
                       /\ lastSubmissionTime'[s] > lastSubmissionTime[s]
                       /\ submissionsInCurrentBatch' =
                              submissionsInCurrentBatch + 1
          /\ lastDecryptionRequestTime' # lastDecryptionRequestTime =>
                \A s \in Addresses :
                    \/ lastDecryptionRequestTime'[s] = lastDecryptionRequestTime[s]
                    \/ /\ requestBatchDecryptionRevert(s) = "ok"
                       /\ lastDecryptionRequestTime'[s] = now
                       /\ lastDecryptionRequestTime'[s]
                              > lastDecryptionRequestTime[s]
                       /\ nextRequestId' = nextRequestId + 1]_vars

\* an address whose two timers were set at different times, the later one
\* in a second successful call
C29_Witness ==
    \E s \in Addresses :
        /\ now = 2 * DefaultCooldown
        /\ lastSubmissionTime[s] = DefaultCooldown
        /\ lastDecryptionRequestTime[s] = now
        /\ nextRequestId = 3

(* C30: addProvider and removeProvider are idempotent writes of one flag: *)
(* applied twice to the same address either gives the provider set it     *)
(* gives when applied once, neither changes the membership of another     *)
(* address, the set changes only by such a write of the owner, and an     *)
(* address that is not in the set, such as a removed one, cannot submit   *)
(* (NotProvider) until addProvider puts it back.                           *)
C30_ProviderSetIdempotent ==
    /\ [](\A x \in Addresses :
            LET added == providersSet(providers, x, TRUE)
                removed == providersSet(providers, x, FALSE) IN
            /\ x \in added /\ x \notin removed
            /\ providersSet(added, x, TRUE) = added
            /\ providersSet(removed, x, FALSE) = removed
            /\ \A y \in Addresses \ {x} :
                   /\ y \in added <=> y \in providers
                   /\ y \in removed <=> y \in providers
            /\ x \notin providers => submitEncryptedDataRevert(x) = "NotProvider"
            /\ submitEncryptedDataRevert(x) = "NotProvider" => x \notin providers)
    /\ [][providers' # providers =>
            /\ addProviderRevert(owner) = "ok"
            /\ \E x \in Addresses :
                   \/ /\ x \notin providers
                      /\ providers' = providersSet(providers, x, TRUE)
                   \/ /\ x \in providers
                      /\ providers' = providersSet(providers, x, FALSE)]_vars

\* the owner has removed itself after submitting and another provider is
\* left: the owner's submission is now rejected as NotProvider
C30_Witness ==
    /\ owner \notin providers
    /\ providers # {}
    /\ lastSubmissionTime[owner] > 0
    /\ batchOpen /\ ~paused
    /\ submitEncryptedDataRevert(owner) = "NotProvider"
    /\ addProviderRevert(owner) = "ok"

(* C31: there is exactly one owner.  The owner changes only in a step     *)
(* that changes nothing else (a successful transferOwnership): providers, *)
(* pause flag, cooldownSeconds, both timers, the batch, the accumulators  *)
(* and all contexts stay as they are; after the step the owner gate       *)
(* passes for the new owner alone, so the previous owner has lost every   *)
(* owner-gated function and the new owner has gained it.                   *)
C31_OwnerChangesOnlyByTransfer ==
    /\ [](/\ owner \in Addresses
          /\ \A s \in Addresses : onlyOwner(s) = "ok" <=> s = owner)
    /\ [][owner' # owner =>
          \A old \in Addresses, new \in Addresses :
            (old = owner /\ new = owner') =>
                /\ transferOwnershipRevert(old) = "ok"
                /\ UNCHANGED <<providers, paused, cooldownSeconds,
                               lastSubmissionTime, lastDecryptionRequestTime,
                               currentBatchId, batchOpen, decryptionContexts,
                               accSentimentScore, accKeywordCount,
                               accPollOption1Count, accPollOption2Count,
                               submissionsInCurrentBatch, nextRequestId>>
                /\ transferOwnershipRevert(old)' = "NotOwner"
                /\ setPausedRevert(old)' = "NotOwner"
                /\ addProviderRevert(old)' = "NotOwner"
                /\ removeProviderRevert(old)' = "NotOwner"
                /\ setCooldownSecondsRevert(old, DefaultCooldown)' = "NotOwner"
                /\ openBatchRevert(old)' = "NotOwner"
                /\ closeBatchRevert(old)' = "NotOwner"
                /\ requestBatchDecryptionRevert(old)' = "NotOwner"
                /\ transferOwnershipRevert(new)' = "ok"
                /\ setPausedRevert(new)' = "ok"
                /\ addProviderRevert(new)' = "ok"
                /\ removeProviderRevert(new)' = "ok"
                /\ setCooldownSecondsRevert(new, DefaultCooldown)' = "ok"
                /\ openBatchRevert(new)' # "NotOwner"
                /\ closeBatchRevert(new)' # "NotOwner"
                /\ requestBatchDecryptionRevert(new)' # "NotOwner"]_vars

\* ownership has passed to an address that is not a provider, with a
\* batch open and a submission of the previous owner in it
C31_Witness ==
    /\ owner = "alice"
    /\ "alice" \notin providers
    /\ batchOpen /\ ~paused
    /\ submissionsInCurrentBatch > 0
    /\ lastSubmissionTime["deployer"] > 0
    /\ closeBatchRevert("alice") = "ok"
    /\ closeBatchRevert("deployer") = "NotOwner"

(* C32: the first submission of an address, and the first decryption      *)
(* request of an owner, is never rejected with CooldownActive: with no    *)
(* action recorded (timestamp 0) the cooldown gate passes at every time   *)
(* and for every positive cooldownSeconds.                                 *)
C32_FirstActionPassesCooldown ==
    \A s \in Addresses :
        /\ lastSubmissionTime[s] = 0
               => submitEncryptedDataRevert(s) # "CooldownActive"
        /\ lastDecryptionRequestTime[s] = 0
               => requestBatchDecryptionRevert(s) # "CooldownActive"

(* C33: the totals of a batch are published at most once: no two          *)
(* different requests finalized, each with its DecryptionCompleted event, *)
(* carry the same batchId.                                                 *)
C33_OnePublicationPerBatch ==
    \A r1 \in RequestIds, r2 \in RequestIds :
        (r1 # r2 /\ completions[r1] # <<>> /\ completions[r2] # <<>>)
            => completions[r1][1].batchId # completions[r2][1].batchId

(* C34: a requestId that no successful requestBatchDecryption returned is *)
(* never finalized: every callback for it reverts, whatever the           *)
(* cleartexts and the proof, a valid one included; its context stays the  *)
(* default one with processed = false and no DecryptionCompleted is       *)
(* emitted for it.                                                         *)
C34_NeverIssuedNeverFinalized ==
    \A r \in RequestIds :
        ~Issued(r) =>
            /\ decryptionContexts[r] = DefaultContext
            /\ completions[r] = <<>>
            /\ \A c \in Cleartexts, p \in Proofs :
                   LET err == myCallbackRevert(r, c, p) IN
                   /\ err # "ok"
                   /\ myCallbackEvents(r, c, p) = <<>>
                   /\ ~contextAfterCallback(r, err).processed

\* a request id not issued yet, next to an issued one whose delivery with
\* the same valid proof would succeed
C34_Witness ==
    \E r \in RequestIds :
        /\ Issued(r) /\ ~Issued(r + 1)
        /\ myCallbackRevert(r, <<2, 6, 2, 0>>, "valid") = "ok"
        /\ myCallbackRevert(r + 1, <<2, 6, 2, 0>>, "valid") = "StateMismatch"

(* C35: every stored context has 1 <= batchId <= currentBatchId, and was  *)
(* created when the batch of that id was closed and had at least one      *)
(* successful submission: the accumulators it was created for are not     *)
(* empty, and while that batch is the current one it is closed, not empty *)
(* and its accumulators are the ones the context was created for.          *)
C35_ContextBatchIds ==
    \A r \in RequestIds :
        Issued(r) =>
            /\ decryptionContexts[r].batchId >= 1
            /\ decryptionContexts[r].batchId <= currentBatchId
            /\ \A i \in 1..4 : Len(requestedCts[r][i]) >= 1
            /\ decryptionContexts[r].batchId = currentBatchId =>
                   /\ ~batchOpen
                   /\ submissionsInCurrentBatch >= 1
                   /\ requestedCts[r] = currentCts

\* contexts of two different batches, the later one for the closed
\* current batch
C35_Witness ==
    \E r1 \in RequestIds, r2 \in RequestIds :
        /\ Issued(r1) /\ Issued(r2)
        /\ decryptionContexts[r1].batchId = 1
        /\ decryptionContexts[r2].batchId = 2
        /\ currentBatchId = 2
        /\ ~batchOpen

\* request r is unprocessed and no openBatch has occurred since it was made
Deliverable(r) ==
    /\ Issued(r)
    /\ ~decryptionContexts[r].processed
    /\ decryptionContexts[r].batchId = currentBatchId

(* C36: while no openBatch has occurred since a request was made, a       *)
(* delivery with a valid proof for the unprocessed request succeeds,      *)
(* whatever else has happened since (pause, ownership transfer, provider  *)
(* and cooldown changes, rejected submissions, further requests,          *)
(* deliveries for other requests); when such deliveries are weakly fair,  *)
(* the request is eventually processed unless a batch is opened first.     *)
C36_ValidDeliveryEventuallySucceeds ==
    /\ [](\A r \in RequestIds, c \in Cleartexts :
            Deliverable(r) =>
                /\ myCallbackRevert(r, c, "valid") = "ok"
                /\ contextAfterCallback(r, "ok").processed)
    /\ \A r \in RequestIds :
           Deliverable(r) ~>
               (\/ decryptionContexts[r].processed
                \/ decryptionContexts[r].batchId < currentBatchId)

\* a pending request that is still deliverable after the system was
\* paused, the ownership transferred, the owner removed as a provider and
\* a later request for the same batch delivered
C36_Witness ==
    \E r \in RequestIds :
        /\ Deliverable(r)
        /\ Issued(r + 1)
        /\ decryptionContexts[r + 1].processed
        /\ paused
        /\ owner = "alice"
        /\ "deployer" \notin providers
        /\ myCallbackRevert(r, <<2, 6, 2, 0>>, "valid") = "ok"

====
